---- MODULE Spec2Model ----
(***************************************************************************)
(* Model of inspect-dataset/scripts/inspect_dataset.py: the bounded        *)
(* discovery of tabular files (validate_inputs, discover_tabular_files,    *)
(* bounded_scan_directory), the CSV inspector and the Parquet inspector.   *)
(*                                                                         *)
(* Three specifications share the module:                                  *)
(*   Spec         validate_inputs followed by discover_tabular_files       *)
(*   SpecCsv      inspect_csv_file on a streamed CSV file                   *)
(*   SpecParquet  inspect_parquet_file under every reader outcome          *)
(***************************************************************************)
EXTENDS Integers, Sequences, FiniteSets, TLC

VARIABLES
    fs,               \* the filesystem snapshot: path -> "absent" | "file" | "dir" | "noread"
    max_files,        \* args.max_files
    subdir_max_depth, \* args.subdir_max_depth
    pc,               \* position of main() / discover_tabular_files
    input_warnings,   \* warning codes returned by validate_inputs
    warnings,         \* warning codes of discover_tabular_files
    discovered,       \* discover_tabular_files: the local list `discovered`
    remaining,        \* discover_tabular_files: the local `remaining`
    allowlisted_dirs, \* discover_tabular_files: the local `allowlisted_dirs`
    subdir_idx,       \* position of the `for subdir in allowlisted_dirs` loop
    queue,            \* bounded_scan_directory: the deque of <<directory, depth>>
    found,            \* bounded_scan_directory: its local list `discovered`
    result,           \* the list discover_tabular_files returns
    csv,              \* state of inspect_csv_file
    pq                \* state of inspect_parquet_file

vars == <<fs, max_files, subdir_max_depth, pc, input_warnings, warnings, discovered,
          remaining, allowlisted_dirs, subdir_idx, queue, found, result, csv, pq>>

discVars == <<fs, max_files, subdir_max_depth, pc, input_warnings, warnings, discovered,
              remaining, allowlisted_dirs, subdir_idx, queue, found, result>>

(***************************************************************************)
(* Bounds of the model.                                                    *)
(***************************************************************************)
MaxFilesBound == 3
MaxDepthBound == 2

(***************************************************************************)
(* Program constants.                                                      *)
(***************************************************************************)
TABULAR_SUFFIXES == {".csv", ".parquet"}

ALLOWED_SUBDIRECTORIES ==
    <<"train", "val", "valid", "validation", "test", "metadata", "labels", "annotations">>

(***************************************************************************)
(* The filesystem.  A path is the sequence of names below the dataset     *)
(* root; <<>> is the dataset root itself.                                  *)
(***************************************************************************)
Root == <<>>

\* Every name of the universe with its position in Python's string order
\* (code points: "." sorts before letters, upper case before lower case) and
\* its Path.suffix.
NameInfo ==
    [n \in {"a.csv", "aux", "b.PARQUET", "d.csv", "deep", "notes.txt", "o.csv", "other",
            "s.csv", "sub", "t.csv", "train", "u.csv", "v.csv", "val", "x.csv"} |->
        CASE n = "a.csv"     -> [rank |-> 1,  suffix |-> ".csv"]
          [] n = "aux"       -> [rank |-> 2,  suffix |-> ""]
          [] n = "b.PARQUET" -> [rank |-> 3,  suffix |-> ".PARQUET"]
          [] n = "d.csv"     -> [rank |-> 4,  suffix |-> ".csv"]
          [] n = "deep"      -> [rank |-> 5,  suffix |-> ""]
          [] n = "notes.txt" -> [rank |-> 6,  suffix |-> ".txt"]
          [] n = "o.csv"     -> [rank |-> 7,  suffix |-> ".csv"]
          [] n = "other"     -> [rank |-> 8,  suffix |-> ""]
          [] n = "s.csv"     -> [rank |-> 9,  suffix |-> ".csv"]
          [] n = "sub"       -> [rank |-> 10, suffix |-> ""]
          [] n = "t.csv"     -> [rank |-> 11, suffix |-> ".csv"]
          [] n = "train"     -> [rank |-> 12, suffix |-> ""]
          [] n = "u.csv"     -> [rank |-> 13, suffix |-> ".csv"]
          [] n = "v.csv"     -> [rank |-> 14, suffix |-> ".csv"]
          [] n = "val"       -> [rank |-> 15, suffix |-> ""]
          [] n = "x.csv"     -> [rank |-> 16, suffix |-> ".csv"]]

FilePaths ==
    { <<"a.csv">>, <<"b.PARQUET">>, <<"notes.txt">>, <<"other", "o.csv">>,
      <<"train", "t.csv">>, <<"train", "u.csv">>, <<"train", "aux", "x.csv">>,
      <<"train", "sub", "s.csv">>, <<"train", "sub", "deep", "d.csv">>,
      <<"val", "v.csv">> }

DirPaths ==
    { <<"other">>, <<"train">>, <<"train", "aux">>, <<"train", "sub">>,
      <<"train", "sub", "deep">>, <<"val">> }

Universe == {Root} \cup FilePaths \cup DirPaths

Name(path) == path[Len(path)]

Parent(path) == SubSeq(path, 1, Len(path) - 1)

\* str.lower() on the suffixes of the universe.
Lower(s) == IF s = ".PARQUET" THEN ".parquet" ELSE s

\* Path.suffix
Suffix(path) == NameInfo[Name(path)].suffix

is_file(path) == path \in Universe /\ fs[path] = "file"

is_dir(path) == path \in Universe /\ fs[path] \in {"dir", "noread"}

is_tabular_file_CaseSensitive(path) == is_file(path) /\ Suffix(path) \in TABULAR_SUFFIXES

is_tabular_file(path) == is_file(path) /\ Lower(Suffix(path)) \in TABULAR_SUFFIXES

\* Path.iterdir(): the existing children of a directory, as a set.
iterdir(dir) == {p \in Universe : p # Root /\ Parent(p) = dir /\ fs[p] # "absent"}

\* Path.iterdir() raises OSError (permission denied).
ListingFails(dir) == fs[dir] = "noread"

RECURSIVE SortByName(_)
\* sorted(..., key=lambda item: item.name)
SortByName(S) ==
    IF S = {} THEN <<>>
    ELSE LET m == CHOOSE p \in S : \A q \in S : NameInfo[Name(p)].rank <= NameInfo[Name(q)].rank
         IN  <<m>> \o SortByName(S \ {m})

RECURSIVE FilterTabular(_)
\* the loop of list_root_tabular_files
FilterTabular(entries) ==
    IF entries = <<>> THEN <<>>
    ELSE IF is_tabular_file(Head(entries))
         THEN <<Head(entries)>> \o FilterTabular(Tail(entries))
         ELSE FilterTabular(Tail(entries))

list_root_tabular_files(dataset_root) == FilterTabular(SortByName(iterdir(dataset_root)))

RECURSIVE AllowedFrom(_, _)
AllowedFrom(dataset_root, names) ==
    IF names = <<>> THEN <<>>
    ELSE LET path == dataset_root \o <<Head(names)>>
         IN  IF is_dir(path)
             THEN <<path>> \o AllowedFrom(dataset_root, Tail(names))
             ELSE AllowedFrom(dataset_root, Tail(names))

list_allowlisted_directories(dataset_root) == AllowedFrom(dataset_root, ALLOWED_SUBDIRECTORIES)

(***************************************************************************)
(* bounded_scan_directory                                                  *)
(***************************************************************************)
LimitReached_OffByOne(list, limit) == Len(list) > limit

\* `len(discovered) >= limit` of the for loop
LimitReached(list, limit) == Len(list) >= limit

MayDescend_Inclusive(depth, max_depth) == depth <= max_depth

\* `depth < max_depth`
MayDescend(depth, max_depth) == depth < max_depth

QueueTake_Right(q) == [item |-> q[Len(q)], rest |-> SubSeq(q, 1, Len(q) - 1)]

\* queue.popleft()
QueueTake(q) == [item |-> Head(q), rest |-> Tail(q)]

OnListingError_Abort(fnd, q) == [found |-> fnd, queue |-> <<>>]

\* `except OSError: continue`
OnListingError(fnd, q) == [found |-> fnd, queue |-> q]

RECURSIVE ProcessEntries(_, _, _, _, _, _)
\* the `for entry in entries` loop
ProcessEntries(entries, depth, max_depth, limit, fnd, q) ==
    IF entries = <<>> THEN [found |-> fnd, queue |-> q]
    ELSE IF LimitReached(fnd, limit) THEN [found |-> fnd, queue |-> q]
    ELSE LET entry == Head(entries)
         IN  IF is_tabular_file(entry)
             THEN ProcessEntries(Tail(entries), depth, max_depth, limit, Append(fnd, entry), q)
             ELSE IF is_dir(entry) /\ MayDescend(depth, max_depth)
             THEN ProcessEntries(Tail(entries), depth, max_depth, limit, fnd,
                                 Append(q, <<entry, depth + 1>>))
             ELSE ProcessEntries(Tail(entries), depth, max_depth, limit, fnd, q)

\* one iteration of `while queue and len(discovered) < limit`
ScanIteration(q, fnd, max_depth, limit) ==
    LET taken == QueueTake(q)
        current_dir == taken.item[1]
        depth == taken.item[2]
    IN  IF ListingFails(current_dir)
        THEN OnListingError(fnd, taken.rest)
        ELSE ProcessEntries(SortByName(iterdir(current_dir)), depth, max_depth, limit,
                            fnd, taken.rest)

\* the condition of the while loop
ScanContinues(q, fnd, limit) == q # <<>> /\ Len(fnd) < limit

(***************************************************************************)
(* discover_tabular_files                                                  *)
(***************************************************************************)
\* discovered[:max_files]
Truncate(list, n) == SubSeq(list, 1, n)

Extend_Front(list, newly_found) == newly_found \o list

\* discovered.extend(newly_found)
Extend(list, newly_found) == list \o newly_found

\* the warnings appended after the subdirectory loop
FinalWarnings(rem, disc) ==
    IF rem <= 0 THEN <<"max_files_reached">>
    ELSE IF disc = <<>> THEN <<"no_tabular_files_found">>
    ELSE <<>>

(***************************************************************************)
(* Initial states of the discovery: a filesystem snapshot and the three   *)
(* numeric arguments.  A directory that cannot be listed ("noread") may    *)
(* still hold entries; they are only invisible to iterdir().              *)
(***************************************************************************)
FileKinds == {"absent", "file"}

\* the kinds a child may have, given the kind of its parent
Under(parentKind, whenListable, whenHidden) ==
    CASE parentKind = "dir"    -> whenListable
      [] parentKind = "noread" -> whenHidden
      [] OTHER                 -> {"absent"}

MkTree(kroot, ka, kb, ktrain, kt, ku, kaux, kx, ksub, ks, kdeep, kd, kval, kv) ==
    [p \in Universe |->
        CASE p = Root                                  -> kroot
          [] p = <<"a.csv">>                           -> ka
          [] p = <<"b.PARQUET">>                       -> kb
          [] p = <<"notes.txt">>                       -> IF kroot = "dir" THEN "file" ELSE "absent"
          [] p = <<"other">>                           -> IF kroot = "dir" THEN "dir" ELSE "absent"
          [] p = <<"other", "o.csv">>                  -> IF kroot = "dir" THEN "file" ELSE "absent"
          [] p = <<"train">>                           -> ktrain
          [] p = <<"train", "t.csv">>                  -> kt
          [] p = <<"train", "u.csv">>                  -> ku
          [] p = <<"train", "aux">>                    -> kaux
          [] p = <<"train", "aux", "x.csv">>           -> kx
          [] p = <<"train", "sub">>                    -> ksub
          [] p = <<"train", "sub", "s.csv">>           -> ks
          [] p = <<"train", "sub", "deep">>            -> kdeep
          [] p = <<"train", "sub", "deep", "d.csv">>   -> kd
          [] p = <<"val">>                             -> kval
          [] p = <<"val", "v.csv">>                    -> kv]

InitTree ==
    \E kroot \in {"dir", "noread", "file", "absent"} :
    \E ka \in Under(kroot, FileKinds, {"file"}), kb \in Under(kroot, FileKinds, {"absent"}),
       ktrain \in Under(kroot, {"absent", "dir", "noread"}, {"absent"}),
       kval \in Under(kroot, {"absent", "file", "dir", "noread"}, {"absent"}) :
    \E kt \in Under(ktrain, FileKinds, {"file"}), ku \in Under(ktrain, FileKinds, {"absent"}),
       kaux \in Under(ktrain, {"absent", "dir", "noread"}, {"absent"}),
       ksub \in Under(ktrain, {"absent", "dir", "noread"}, {"absent"}),
       kv \in Under(kval, FileKinds, {"file"}) :
    \E kx \in Under(kaux, FileKinds, {"file"}),
       ks \in Under(ksub, FileKinds, {"file"}),
       kdeep \in Under(ksub, {"absent", "dir"}, {"dir"}) :
    \E kd \in Under(kdeep, FileKinds, {"file"}) :
        fs = MkTree(kroot, ka, kb, ktrain, kt, ku, kaux, kx, ksub, ks, kdeep, kd, kval, kv)

CsvIdle == [pc |-> "idle", sample_rows |-> 0, fieldnames |-> <<>>, columns |-> <<>>,
            null_counts |-> <<>>, sampled_rows |-> 0]

PqIdle == [pc |-> "idle"]

DiscoveryIdle ==
    /\ fs = [p \in Universe |-> IF p = Root THEN "dir" ELSE "absent"]
    /\ max_files = 1
    /\ subdir_max_depth = 0
    /\ pc = "idle"
    /\ input_warnings = <<>>
    /\ warnings = <<>>
    /\ discovered = <<>>
    /\ remaining = 0
    /\ allowlisted_dirs = <<>>
    /\ subdir_idx = 0
    /\ queue = <<>>
    /\ found = <<>>
    /\ result = <<>>

Init ==
    /\ InitTree
    /\ max_files \in 0..MaxFilesBound
    /\ subdir_max_depth \in -1..MaxDepthBound
    /\ pc = "validate"
    /\ input_warnings = <<>>
    /\ warnings = <<>>
    /\ discovered = <<>>
    /\ remaining = 0
    /\ allowlisted_dirs = <<>>
    /\ subdir_idx = 0
    /\ queue = <<>>
    /\ found = <<>>
    /\ result = <<>>
    /\ csv = CsvIdle
    /\ pq = PqIdle

(***************************************************************************)
(* validate_inputs                                                         *)
(***************************************************************************)
InputsInvalid ==
    \/ fs[Root] = "absent"
    \/ ~is_dir(Root)
    \/ max_files <= 0
    \/ subdir_max_depth < 0

\* one of the ValueErrors is raised; main() prints it and returns 2
ValidateInputsRejects ==
    /\ pc = "validate"
    /\ InputsInvalid
    /\ pc' = "exit2"
    /\ UNCHANGED <<fs, max_files, subdir_max_depth, input_warnings, warnings, discovered,
                   remaining, allowlisted_dirs, subdir_idx, queue, found, result, csv, pq>>

ValidateInputsAccepts ==
    /\ pc = "validate"
    /\ ~InputsInvalid
    /\ input_warnings' = IF subdir_max_depth = 0 THEN <<"subdir_scan_disabled">> ELSE <<>>
    /\ pc' = "root"
    /\ UNCHANGED <<fs, max_files, subdir_max_depth, warnings, discovered,
                   remaining, allowlisted_dirs, subdir_idx, queue, found, result, csv, pq>>

(***************************************************************************)
(* discover_tabular_files                                                  *)
(***************************************************************************)
\* dataset_root.iterdir() raises in list_root_tabular_files: nothing catches it
DiscoverRootRaises ==
    /\ pc = "root"
    /\ ListingFails(Root)
    /\ pc' = "raised"
    /\ UNCHANGED <<fs, max_files, subdir_max_depth, input_warnings, warnings, discovered,
                   remaining, allowlisted_dirs, subdir_idx, queue, found, result, csv, pq>>

\* the root alone fills the budget: `return discovered[:max_files], warnings`
DiscoverRootFull ==
    /\ pc = "root"
    /\ ~ListingFails(Root)
    /\ LET files == list_root_tabular_files(Root)
       IN  /\ Len(files) >= max_files
           /\ discovered' = files
           /\ result' = Truncate(files, max_files)
    /\ pc' = "done"
    /\ UNCHANGED <<fs, max_files, subdir_max_depth, input_warnings, warnings,
                   remaining, allowlisted_dirs, subdir_idx, queue, found, csv, pq>>

\* no allowlisted subdirectory exists: warn and return the root files
DiscoverRootOnly ==
    /\ pc = "root"
    /\ ~ListingFails(Root)
    /\ LET files == list_root_tabular_files(Root)
       IN  /\ Len(files) < max_files
           /\ list_allowlisted_directories(Root) = <<>>
           /\ discovered' = files
           /\ remaining' = max_files - Len(files)
           /\ result' = files
    /\ allowlisted_dirs' = <<>>
    /\ warnings' = Append(warnings, "no_allowlisted_dirs")
    /\ pc' = "done"
    /\ UNCHANGED <<fs, max_files, subdir_max_depth, input_warnings,
                   subdir_idx, queue, found, csv, pq>>

\* the subdirectory loop is entered
DiscoverRootThenSubdirs ==
    /\ pc = "root"
    /\ ~ListingFails(Root)
    /\ LET files == list_root_tabular_files(Root)
       IN  /\ Len(files) < max_files
           /\ list_allowlisted_directories(Root) # <<>>
           /\ discovered' = files
           /\ remaining' = max_files - Len(files)
    /\ allowlisted_dirs' = list_allowlisted_directories(Root)
    /\ subdir_idx' = 1
    /\ pc' = "loop"
    /\ UNCHANGED <<fs, max_files, subdir_max_depth, input_warnings, warnings,
                   queue, found, result, csv, pq>>

\* `for subdir in allowlisted_dirs` takes the next subdirectory and calls
\* bounded_scan_directory, which sets up its queue (or returns [] at once)
SubdirScanBegins ==
    /\ pc = "loop"
    /\ subdir_idx <= Len(allowlisted_dirs)
    /\ remaining > 0
    /\ found' = <<>>
    /\ queue' = IF remaining <= 0 THEN <<>> ELSE << <<allowlisted_dirs[subdir_idx], 0>> >>
    /\ pc' = "scan"
    /\ UNCHANGED <<fs, max_files, subdir_max_depth, input_warnings, warnings, discovered,
                   remaining, allowlisted_dirs, subdir_idx, result, csv, pq>>

\* one iteration of the while loop of bounded_scan_directory
ScanStep ==
    /\ pc = "scan"
    /\ ScanContinues(queue, found, remaining)
    /\ LET next == ScanIteration(queue, found, subdir_max_depth, remaining)
       IN  /\ queue' = next.queue
           /\ found' = next.found
    /\ UNCHANGED <<fs, max_files, subdir_max_depth, pc, input_warnings, warnings, discovered,
                   remaining, allowlisted_dirs, subdir_idx, result, csv, pq>>

\* bounded_scan_directory returns; the caller extends and recomputes `remaining`
ScanReturns ==
    /\ pc = "scan"
    /\ ~ScanContinues(queue, found, remaining)
    /\ discovered' = Extend(discovered, found)
    /\ remaining' = max_files - Len(discovered')
    /\ subdir_idx' = subdir_idx + 1
    /\ queue' = <<>>
    /\ found' = <<>>
    /\ pc' = "loop"
    /\ UNCHANGED <<fs, max_files, subdir_max_depth, input_warnings, warnings,
                   allowlisted_dirs, result, csv, pq>>

\* the loop ends (exhausted or `break`), the final warning is chosen, return
DiscoverReturns ==
    /\ pc = "loop"
    /\ (subdir_idx > Len(allowlisted_dirs) \/ remaining <= 0)
    /\ warnings' = warnings \o FinalWarnings(remaining, discovered)
    /\ result' = discovered
    /\ pc' = "done"
    /\ UNCHANGED <<fs, max_files, subdir_max_depth, input_warnings, discovered,
                   remaining, allowlisted_dirs, subdir_idx, queue, found, csv, pq>>

Next ==
    \/ ValidateInputsRejects
    \/ ValidateInputsAccepts
    \/ DiscoverRootRaises
    \/ DiscoverRootFull
    \/ DiscoverRootOnly
    \/ DiscoverRootThenSubdirs
    \/ SubdirScanBegins
    \/ ScanStep
    \/ ScanReturns
    \/ DiscoverReturns

Spec == Init /\ [][Next]_vars

(***************************************************************************)
(* inspect_csv_file.  The file is streamed: the header and each data row  *)
(* are drawn when the reader asks for them.  None is <<>>, a value v that  *)
(* is present is <<v>>.                                                    *)
(***************************************************************************)
MaxCols == 2
MaxSampleRows == 2

None == <<>>

Some(v) == <<v>>

ColumnNames == {"a", "b"}

Cells == {"x", "", " "}

\* str.strip() on the cells of the model
Strip(cell) == IF cell = " " THEN "" ELSE cell

EMPTY_CELL_VALUE == ""

\* the header rows csv.reader can yield: any sequence of names, repeats included
Headers == UNION {[1..n -> ColumnNames] : n \in 0..MaxCols}

\* the non-empty data rows csv.reader can yield (DictReader skips the empty ones)
DataRows == UNION {[1..n -> Cells] : n \in 1..(MaxCols + 1)}

Range(seq) == {seq[i] : i \in 1..Len(seq)}

\* csv.DictReader.__next__: dict(zip(fieldnames, row)), the last of a repeated name
\* wins, and names beyond the row's length get restval = None
DictRow(fieldnames, row) ==
    [k \in Range(fieldnames) |->
        LET last == CHOOSE i \in 1..Len(fieldnames) :
                        /\ fieldnames[i] = k
                        /\ \A j \in 1..Len(fieldnames) : fieldnames[j] = k => j <= i
        IN  IF last > Len(row) THEN None ELSE Some(row[last])]

\* `value is None or value.strip() == EMPTY_CELL_VALUE`
IsNullCell(value) == value = None \/ Strip(value[1]) = EMPTY_CELL_VALUE

RECURSIVE CountRow(_, _, _)
\* `for column in columns`: one pass over the column list for one row
CountRow(columns, d, counts) ==
    IF columns = <<>> THEN counts
    ELSE LET column == Head(columns)
         IN  CountRow(Tail(columns), d,
                      IF IsNullCell(d[column])
                      THEN [counts EXCEPT ![column] = @ + 1]
                      ELSE counts)

InitCsv ==
    /\ DiscoveryIdle
    /\ pq = PqIdle
    /\ \E n \in 1..MaxSampleRows :
           csv = [pc |-> "open", sample_rows |-> n, fieldnames |-> <<>>, columns |-> <<>>,
                  null_counts |-> <<>>, sampled_rows |-> 0]

\* the file is empty: reader.fieldnames is None, `or []` applies
CsvHeaderMissing ==
    /\ csv.pc = "open"
    /\ csv' = [csv EXCEPT !.pc = "rows", !.fieldnames = <<>>, !.columns = <<>>,
                          !.null_counts = <<>>, !.sampled_rows = 0]
    /\ UNCHANGED <<discVars, pq>>

\* the header row is read; null_counts is a dict keyed by the column names
CsvHeaderRead ==
    /\ csv.pc = "open"
    /\ \E header \in Headers :
           csv' = [csv EXCEPT !.pc = "rows", !.fieldnames = header, !.columns = header,
                              !.null_counts = [c \in Range(header) |-> 0],
                              !.sampled_rows = 0]
    /\ UNCHANGED <<discVars, pq>>

\* `for row in reader` yields a row and it is sampled
CsvRowSampled ==
    /\ csv.pc = "rows"
    /\ csv.sampled_rows < csv.sample_rows
    /\ \E row \in DataRows :
           csv' = [csv EXCEPT !.sampled_rows = @ + 1,
                              !.null_counts = CountRow(csv.columns,
                                                       DictRow(csv.fieldnames, row), @)]
    /\ UNCHANGED <<discVars, pq>>

\* `for row in reader` yields a row but the sample is full: break
CsvSampleFull ==
    /\ csv.pc = "rows"
    /\ csv.sampled_rows >= csv.sample_rows
    /\ csv' = [csv EXCEPT !.pc = "done"]
    /\ UNCHANGED <<discVars, pq>>

\* the reader is exhausted
CsvEndOfFile ==
    /\ csv.pc = "rows"
    /\ csv' = [csv EXCEPT !.pc = "done"]
    /\ UNCHANGED <<discVars, pq>>

NextCsv ==
    \/ CsvHeaderMissing
    \/ CsvHeaderRead
    \/ CsvRowSampled
    \/ CsvSampleFull
    \/ CsvEndOfFile

SpecCsv == InitCsv /\ [][NextCsv]_vars

(***************************************************************************)
(* inspect_parquet_file.  The environment fixes, before the call, whether  *)
(* pyarrow can be imported, whether pq.ParquetFile(path) raises, whether   *)
(* iter_batches raises, the file's schema and first batch, and which       *)
(* external tools shutil.which finds.                                      *)
(***************************************************************************)
Schemas == {<<>>, <<"a">>, <<"b">>, <<"a", "b">>, <<"b", "a">>}

\* first_batch: None, or its row count and the null count of each column
Batches(schema, sample_rows) ==
    {None} \cup
    { Some([num_rows |-> n, null_count |-> nc]) :
        n \in 0..sample_rows, nc \in UNION {[Range(schema) -> 0..m] : m \in 0..sample_rows} }

build_parquet_fallback_ToolsOnly(duckdb, parquet_tools) ==
    [options |-> (IF duckdb THEN <<"duckdb">> ELSE <<>>)
                 \o (IF parquet_tools THEN <<"parquet-tools">> ELSE <<>>)]

\* the option list: duckdb and parquet-tools when found, uv always
build_parquet_fallback(duckdb, parquet_tools) ==
    [options |-> (IF duckdb THEN <<"duckdb">> ELSE <<>>)
                 \o (IF parquet_tools THEN <<"parquet-tools">> ELSE <<>>)
                 \o <<"uv">>]

\* ParquetSummary(...)
ParquetSummary(status, columns, sampled_rows, null_counts, fallback, error) ==
    [kind |-> "parquet", status |-> status, columns |-> columns,
     sampled_rows |-> sampled_rows, null_counts |-> null_counts,
     fallback |-> fallback, error |-> error]

FailureSummary(status, columns, error) ==
    ParquetSummary(status, columns, None, None,
                   Some(build_parquet_fallback(pq.duckdb, pq.parquet_tools)), Some(error))

InitParquet ==
    /\ DiscoveryIdle
    /\ csv = CsvIdle
    /\ \E importable, open_raises, batch_raises, duckdb, parquet_tools \in BOOLEAN,
          schema \in Schemas, n \in 1..MaxSampleRows :
       \E batch \in {b \in Batches(schema, n) :
                       b # None => \A c \in Range(schema) :
                                       b[1].null_count[c] <= b[1].num_rows} :
           pq = [pc |-> "import", sample_rows |-> n, importable |-> importable,
                 open_raises |-> open_raises, batch_raises |-> batch_raises,
                 duckdb |-> duckdb, parquet_tools |-> parquet_tools,
                 schema |-> schema, batch |-> batch,
                 columns |-> <<>>, summary |-> None]

\* `import pyarrow` raises ImportError
PqImportFails ==
    /\ pq.pc = "import"
    /\ ~pq.importable
    /\ pq' = [pq EXCEPT !.pc = "done",
                        !.summary = Some(FailureSummary("fallback-required", <<>>,
                                                        "pyarrow is not installed"))]
    /\ UNCHANGED <<discVars, csv>>

PqImportSucceeds ==
    /\ pq.pc = "import"
    /\ pq.importable
    /\ pq' = [pq EXCEPT !.pc = "open"]
    /\ UNCHANGED <<discVars, csv>>

\* pq.ParquetFile(path) raises
PqOpenFails ==
    /\ pq.pc = "open"
    /\ pq.open_raises
    /\ pq' = [pq EXCEPT !.pc = "done",
                        !.summary = Some(FailureSummary("read-error", <<>>,
                                                        "pyarrow failed to open file"))]
    /\ UNCHANGED <<discVars, csv>>

\* the schema is read from the file's metadata
PqOpenSucceeds ==
    /\ pq.pc = "open"
    /\ ~pq.open_raises
    /\ pq' = [pq EXCEPT !.pc = "batch", !.columns = pq.schema]
    /\ UNCHANGED <<discVars, csv>>

\* next(parquet_file.iter_batches(...)) raises
PqBatchFails ==
    /\ pq.pc = "batch"
    /\ pq.batch_raises
    /\ pq' = [pq EXCEPT !.pc = "done",
                        !.summary = Some(FailureSummary("read-error", pq.columns,
                                             "pyarrow failed while reading sample rows"))]
    /\ UNCHANGED <<discVars, csv>>

\* the first batch (or None for a file without row groups) is summarised
PqBatchSucceeds ==
    /\ pq.pc = "batch"
    /\ ~pq.batch_raises
    /\ LET sampled_rows == IF pq.batch = None THEN 0 ELSE pq.batch[1].num_rows
           null_counts == IF pq.batch = None THEN <<>> ELSE pq.batch[1].null_count
       IN  pq' = [pq EXCEPT !.pc = "done",
                            !.summary = Some(ParquetSummary("ok", pq.columns,
                                                 Some(sampled_rows), Some(null_counts),
                                                 None, None))]
    /\ UNCHANGED <<discVars, csv>>

NextParquet ==
    \/ PqImportFails
    \/ PqImportSucceeds
    \/ PqOpenFails
    \/ PqOpenSucceeds
    \/ PqBatchFails
    \/ PqBatchSucceeds

SpecParquet == InitParquet /\ [][NextParquet]_vars

(***************************************************************************)
(* Vocabulary of the properties, stated on paths and on the filesystem     *)
(* alone, independently of the operators of the scan.                      *)
(***************************************************************************)
\* the names of the universe with a .csv or .parquet extension, in any case
TabularNames == {"a.csv", "b.PARQUET", "d.csv", "o.csv", "s.csv", "t.csv", "u.csv",
                 "v.csv", "x.csv"}

CanonicalOrder ==
    <<"train", "val", "valid", "validation", "test", "metadata", "labels", "annotations">>

CanonicalRank(name) == CHOOSE i \in 1..Len(CanonicalOrder) : CanonicalOrder[i] = name

IsRootLevel(path) == Len(path) = 1

\* depth of the directory holding `path`, relative to its allowlisted subdirectory
DirDepth(path) == Len(path) - 2

\* every directory on the way to `path` below the root can be listed
Reachable(path) == \A n \in 1..(Len(path) - 1) : fs[SubSeq(path, 1, n)] = "dir"

\* a tabular file the subdirectory phase is allowed to return
EligibleInSubdir(path) ==
    /\ path \in FilePaths
    /\ fs[path] = "file"
    /\ Name(path) \in TabularNames
    /\ Len(path) >= 2
    /\ path[1] \in Range(CanonicalOrder)
    /\ DirDepth(path) <= subdir_max_depth
    /\ Reachable(path)

EligibleAtRoot(path) ==
    /\ path \in FilePaths
    /\ fs[path] = "file"
    /\ Name(path) \in TabularNames
    /\ IsRootLevel(path)

Eligible == {p \in FilePaths : EligibleAtRoot(p) \/ EligibleInSubdir(p)}

Min(a, b) == IF a <= b THEN a ELSE b

AllReadable == \A p \in Universe : fs[p] # "noread"

Returned == pc = "done"

(***************************************************************************)
(* C1: the list returned by discover_tabular_files never has more than     *)
(* max_files entries, whatever the root files and subdirectory scans are.  *)
(***************************************************************************)
C1_AtMostMaxFiles == Returned => Len(result) <= max_files

\* the budget is used up by root files and subdirectory files together, and an
\* eligible file is left out
C1_Witness ==
    /\ Returned
    /\ Len(result) = max_files
    /\ \E i, j \in 1..Len(result) : IsRootLevel(result[i]) /\ ~IsRootLevel(result[j])
    /\ \E p \in Eligible : p \notin Range(result)

(***************************************************************************)
(* C2: whenever discover_tabular_files returns exactly max_files files,    *)
(* its warnings contain max_files_reached (also when the root alone fills  *)
(* the budget).                                                            *)
(***************************************************************************)
C2_ExhaustedBudgetWarns ==
    (Returned /\ Len(result) = max_files) => "max_files_reached" \in Range(warnings)

(***************************************************************************)
(* C3: in the returned list root-level files precede all subdirectory      *)
(* files, and the files of different allowlisted subdirectories appear in  *)
(* the canonical order of the allowlist, never interleaved.                *)
(***************************************************************************)
C3_RootFirstCanonicalOrder ==
    Returned =>
        /\ \A i \in 1..Len(result) :
               IsRootLevel(result[i]) \/ result[i][1] \in Range(CanonicalOrder)
        /\ \A i, j \in 1..Len(result) :
               i < j =>
                   /\ IsRootLevel(result[j]) => IsRootLevel(result[i])
                   /\ (~IsRootLevel(result[i]) /\ ~IsRootLevel(result[j])) =>
                          CanonicalRank(result[i][1]) <= CanonicalRank(result[j][1])

\* a root file, a file of train and a file of val are all returned
C3_Witness ==
    /\ Returned
    /\ \E i, j, k \in 1..Len(result) :
           /\ IsRootLevel(result[i])
           /\ ~IsRootLevel(result[j]) /\ result[j][1] = "train"
           /\ ~IsRootLevel(result[k]) /\ result[k][1] = "val"

(***************************************************************************)
(* C4: every file found in the subdirectory phase lies in a directory of   *)
(* depth at most subdir_max_depth below its allowlisted subdirectory;      *)
(* deeper files are left out without any error.                            *)
(***************************************************************************)
C4_DepthBounded ==
    /\ \A i \in 1..Len(found) : DirDepth(found[i]) <= subdir_max_depth
    /\ \A i \in 1..Len(queue) : queue[i][2] <= subdir_max_depth
    /\ Returned =>
           \A i \in 1..Len(result) :
               ~IsRootLevel(result[i]) => DirDepth(result[i]) <= subdir_max_depth

\* a tabular file sits too deep in listable directories and is left out although
\* the budget is not used up, while a file at the deepest allowed level is returned
C4_Witness ==
    /\ Returned
    /\ Len(result) < max_files
    /\ \E p \in FilePaths :
           /\ fs[p] = "file" /\ Name(p) \in TabularNames /\ Len(p) >= 2
           /\ p[1] = "train" /\ Reachable(p)
           /\ DirDepth(p) > subdir_max_depth
           /\ p \notin Range(result)
    /\ \E i \in 1..Len(result) :
           ~IsRootLevel(result[i]) /\ DirDepth(result[i]) = subdir_max_depth

(***************************************************************************)
(* C5: with subdir_max_depth = 0 validate_inputs warns subdir_scan_disabled*)
(* and, as the warning says, only root-level files are returned.           *)
(***************************************************************************)
C5_DepthZeroRootOnly ==
    (Returned /\ subdir_max_depth = 0) =>
        /\ "subdir_scan_disabled" \in Range(input_warnings)
        /\ \A i \in 1..Len(result) : IsRootLevel(result[i])

(***************************************************************************)
(* C6: the summary of inspect_csv_file has sampled_rows <= sample_rows,    *)
(* null_counts keyed exactly by the names in columns, and every null count *)
(* between 0 and sampled_rows, for any header, repeated names included.    *)
(***************************************************************************)
C6_CsvSummaryConsistent ==
    csv.pc = "done" =>
        /\ csv.sampled_rows <= csv.sample_rows
        /\ DOMAIN csv.null_counts = Range(csv.columns)
        /\ \A c \in DOMAIN csv.null_counts :
               0 <= csv.null_counts[c] /\ csv.null_counts[c] <= csv.sampled_rows

(***************************************************************************)
(* C7: the summary of inspect_parquet_file has status and fields in        *)
(* agreement, and the outcomes are tested in the order reader unavailable, *)
(* open failure, batch failure.                                            *)
(***************************************************************************)
C7_ParquetStatusAgrees ==
    pq.pc = "done" =>
        LET s == pq.summary[1]
        IN  /\ s.status \in {"ok", "fallback-required", "read-error"}
            /\ s.status = "ok" =>
                   /\ s.error = None /\ s.fallback = None
                   /\ s.sampled_rows # None /\ s.null_counts # None
            /\ s.status \in {"fallback-required", "read-error"} =>
                   /\ s.error # None
                   /\ s.fallback # None /\ Len(s.fallback[1].options) >= 1
                   /\ s.sampled_rows = None /\ s.null_counts = None
            /\ ~pq.importable => s.status = "fallback-required" /\ s.columns = <<>>
            /\ (pq.importable /\ pq.open_raises) =>
                   s.status = "read-error" /\ s.columns = <<>>
            /\ (pq.importable /\ ~pq.open_raises /\ pq.batch_raises) =>
                   s.status = "read-error" /\ s.columns = pq.schema
            /\ (pq.importable /\ ~pq.open_raises /\ ~pq.batch_raises) => s.status = "ok"

\* the reader is missing, opening and reading would fail too, and no external
\* tool is installed
C7_Witness ==
    /\ pq.pc = "done"
    /\ ~pq.importable /\ pq.open_raises /\ pq.batch_raises
    /\ ~pq.duckdb /\ ~pq.parquet_tools
    /\ pq.summary[1].status = "fallback-required"

\* a tabular file whose own directory can be listed and lies within the depth
\* bound of an allowlisted subdirectory, whatever lies between the two
InReadableDirWithinDepth(path) ==
    /\ path \in FilePaths
    /\ fs[path] = "file"
    /\ Name(path) \in TabularNames
    /\ Len(path) >= 2
    /\ path[1] \in Range(CanonicalOrder)
    /\ fs[<<path[1]>>] \in {"dir", "noread"}
    /\ DirDepth(path) <= subdir_max_depth
    /\ fs[Parent(path)] = "dir"

(***************************************************************************)
(* C8 as stated: a directory whose listing fails is skipped, the scan      *)
(* never raises, EVERY tabular file in a readable directory within the     *)
(* depth bound is still returned (up to the limit), and no warning is      *)
(* produced for the skipped directory.                                     *)
(***************************************************************************)
C8_EveryReadableDirScanned ==
    /\ pc = "raised" => (ListingFails(Root) /\ allowlisted_dirs = <<>>)
    /\ (Returned /\ allowlisted_dirs # <<>>) =>
           /\ \A p \in FilePaths :
                  InReadableDirWithinDepth(p) =>
                      (p \in Range(result) \/ Len(result) = max_files)
           /\ Range(warnings) \subseteq {"max_files_reached", "no_tabular_files_found"}
           /\ (Len(result) < max_files /\ result # <<>>) => warnings = <<>>

(***************************************************************************)
(* C8, amended: a directory whose listing fails during                     *)
(* bounded_scan_directory is skipped and the scan never raises; every      *)
(* tabular file within the depth bound in a directory that is reached      *)
(* through directories whose listing succeeds is still returned (up to     *)
(* the limit), and no warning is produced for the skipped directory.       *)
(***************************************************************************)
C8_ListingFailureSkipped ==
    /\ pc = "raised" => (ListingFails(Root) /\ allowlisted_dirs = <<>>)
    /\ (Returned /\ allowlisted_dirs # <<>>) =>
           /\ \A p \in FilePaths :
                  EligibleInSubdir(p) => (p \in Range(result) \/ Len(result) = max_files)
           /\ Range(warnings) \subseteq {"max_files_reached", "no_tabular_files_found"}
           /\ (Len(result) < max_files /\ result # <<>>) => warnings = <<>>

\* train/aux cannot be listed, is dequeued within the depth bound before
\* train/sub, and the file of train/sub is returned all the same
C8_Witness ==
    /\ Returned
    /\ subdir_max_depth >= 1
    /\ fs[<<"train">>] = "dir"
    /\ fs[<<"train", "aux">>] = "noread"
    /\ <<"train", "sub", "s.csv">> \in Range(result)

(***************************************************************************)
(* C9: within one allowlisted subdirectory the returned files are in       *)
(* breadth-first order: directory depth never decreases, the files of one  *)
(* directory are contiguous and ascending by name, and a file cut off by   *)
(* the budget is never shallower than a file that was kept.                *)
(***************************************************************************)
C9_BreadthFirstOrder ==
    Returned =>
        /\ \A i, j \in 1..Len(result) :
               (i < j /\ ~IsRootLevel(result[i]) /\ ~IsRootLevel(result[j])
                      /\ result[i][1] = result[j][1]) =>
                   /\ DirDepth(result[i]) <= DirDepth(result[j])
                   /\ Parent(result[i]) = Parent(result[j]) =>
                          /\ NameInfo[Name(result[i])].rank < NameInfo[Name(result[j])].rank
                          /\ \A k \in i..j : Parent(result[k]) = Parent(result[i])
        /\ \A p \in FilePaths : \A i \in 1..Len(result) :
               (EligibleInSubdir(p) /\ p \notin Range(result)
                    /\ ~IsRootLevel(result[i]) /\ result[i][1] = p[1]) =>
                   DirDepth(result[i]) <= DirDepth(p)

\* files of two directories of the same depth and of a shallower directory are
\* returned, and the budget cuts off a reachable deeper file
C9_Witness ==
    /\ Returned
    /\ Len(result) = max_files
    /\ \E i, j \in 1..Len(result) :
           /\ i < j
           /\ ~IsRootLevel(result[i]) /\ ~IsRootLevel(result[j])
           /\ result[i][1] = result[j][1]
           /\ DirDepth(result[i]) < DirDepth(result[j])
    /\ \E p \in FilePaths :
           EligibleInSubdir(p) /\ p \notin Range(result) /\ DirDepth(p) >= 1

(***************************************************************************)
(* C10: when every directory is readable, the returned list holds exactly  *)
(* min(max_files, E) files, E being the number of eligible files; each is  *)
(* eligible and none is returned twice.                                    *)
(***************************************************************************)
C10_DiscoveryComplete ==
    (Returned /\ AllReadable) =>
        /\ Len(result) = Min(max_files, Cardinality(Eligible))
        /\ Range(result) \subseteq Eligible
        /\ Cardinality(Range(result)) = Len(result)

\* all eligible files fit the budget and are returned, among them an upper-case
\* .PARQUET file and a subdirectory file, while a tabular file below the depth
\* bound and one in a directory off the allowlist stay out
C10_Witness ==
    /\ Returned
    /\ AllReadable
    /\ Cardinality(Eligible) <= max_files
    /\ <<"b.PARQUET">> \in Range(result)
    /\ \E i \in 1..Len(result) : ~IsRootLevel(result[i])
    /\ fs[<<"other", "o.csv">>] = "file"
    /\ \E p \in FilePaths :
           /\ fs[p] = "file" /\ Name(p) \in TabularNames /\ Len(p) >= 2
           /\ p[1] = "train" /\ DirDepth(p) > subdir_max_depth
====
